---- MODULE Spec2Model ----
(***************************************************************************)
(* Discrete-event simulation of a nurse clinic (src/model.py).             *)
(*                                                                         *)
(* One replication is Model.run: a simpy environment whose event queue is  *)
(* ordered by (time, priority, insertion number), a patient arrival        *)
(* generator, one attend_clinic process per patient competing for a        *)
(* simpy.Resource of number_of_nurses nurses, and an interval auditor.     *)
(* Times are integers: the exponential samples are drawn from small        *)
(* integer sets, so that simultaneous events (which simpy orders by        *)
(* priority and insertion number) do occur.                                *)
(*                                                                         *)
(* simpy semantics the model follows: Initialize events and the stop event *)
(* of env.run(until) are URGENT, timeouts and request/release events are   *)
(* NORMAL; request() grants at once when a nurse is free; release() frees  *)
(* the nurse at once, and the head of the queue is granted when the        *)
(* Release event is processed, at the same time.  Events without effect    *)
(* (the end of a process) are left out: they change no relative order.     *)
(* Trial.run_single's figures are taken from the Model's final state.      *)
(***************************************************************************)
EXTENDS Integers, Sequences, FiniteSets, TLC

\* ---------------------------------------------------------------- bounds
MaxNurses == 2
MaxSim == 3
MaxWarm == 2
MaxGap == 2
MaxService == 3
MaxInterval == 3
MaxRunNumber == 1
MaxRuns == 3

\* inputs of one replication
NurseNumbers == 1..MaxNurses
SimDurations == 0..MaxSim
WarmUps == {0, MaxWarm}
AuditIntervals == 1..MaxInterval
\* samples of patient_inter_arrival_dist (positive) and of
\* nurse_consult_time_dist (non-negative)
Gaps == 1..MaxGap
Services == {0, 1, MaxService}

\* replication indices
RunNumbers == 0..MaxRunNumber

\* simpy event priorities
URGENT == 0
NORMAL == 1

VARIABLES
    param,              \* Model.param: the configuration of the run
    phase,              \* "init" | "running" | "done" | "error"
    now,                \* env.now
    events,             \* the simpy event queue (a set; order is by key)
    eid,                \* simpy's event insertion counter
    patient_counter,    \* Model.patient_counter
    patients,           \* the Patient objects, by id, with their timestamps
    users,              \* nurse.users: requests holding a nurse
    queue,              \* nurse.queue: requests waiting, oldest first
    nurse_time_used,    \* Model.nurse_time_used
    results_list,       \* Model.results_list
    utilisation_audit,  \* Model.utilisation_audit
    requested,          \* history: patient ids in the order they requested
    granted,            \* history: patient ids in the order they were granted
    area_busy,          \* MonitoredResource: integral of the in-use count
    area_queue,         \* MonitoredResource: integral of the queue length
    time_last_event,    \* MonitoredResource: time of the last update
    run_number,         \* Model.run_number
    rng,                \* the two Exponential objects: seed and samples drawn
    streams,            \* the samples each seeded generator has produced so far
    previous,           \* results_list of the Models run before this one
    trial               \* the Trial object and the progress of run_trial

vars == <<param, phase, now, events, eid, patient_counter, patients, users,
          queue, nurse_time_used, results_list, utilisation_audit,
          requested, granted, area_busy, area_queue, time_last_event,
          run_number, rng, streams, previous, trial>>

\* what no step of a Model's run changes
others == <<run_number, previous, trial>>

\* the random number generators, untouched by a step that samples nothing
sampling == <<rng, streams>>

\* the statistics of a MonitoredResource; Model's nurse is a plain
\* simpy.Resource and leaves them alone
monitor == <<area_busy, area_queue, time_last_event>>

\* ---------------------------------------------------------- event queue
\* variant: the priority is left out of the key of the event queue
BeforeInsertionOnly(e, f) ==
    \/ e.time < f.time
    \/ e.time = f.time /\ e.eid < f.eid

\* simpy orders events by (time, priority, insertion number)
Before(e, f) ==
    \/ e.time < f.time
    \/ e.time = f.time /\ e.prio < f.prio
    \/ e.time = f.time /\ e.prio = f.prio /\ e.eid < f.eid

\* the event env.step() pops next
NextEvent == CHOOSE e \in events : \A f \in events : f = e \/ Before(e, f)

Event(t, prio, n, kind, pid) ==
    [time |-> t, prio |-> prio, eid |-> n, kind |-> kind, pid |-> pid]

Horizon == param.sim_duration + param.warm_up_period

Running == phase = "running" /\ events # {}

\* variant: the run goes on through the instant of the horizon
RunUntilInclusive == param.sim_duration + param.warm_up_period + 1

\* env.run(until=...): the time of the stop event
RunUntil == param.sim_duration + param.warm_up_period

\* ------------------------------------------------- seeds and distributions
\* variant: the seed sequence takes fresh entropy instead of the run number
SeedEntropyFresh(run, fresh) == fresh

\* np.random.SeedSequence(entropy=self.run_number); fresh stands for the
\* entropy of the operating system, which the code does not use
SeedEntropy(run, fresh) == run

\* Exponential(mean, random_seed=seeds[i]): a generator that has drawn nothing
Exponential(entropy, i) == [seed |-> <<entropy, i>>, n |-> 0]

\* ss.spawn(2) and the two distributions of a Model
Distributions(run, fresh) ==
    [inter |-> Exponential(SeedEntropy(run, fresh), 0),
     consult |-> Exponential(SeedEntropy(run, fresh), 1)]

\* the samples the generator seeded with k has produced so far
StreamOf(k) == IF k \in DOMAIN streams THEN streams[k] ELSE <<>>

\* dist.sample() may return v: a seeded generator always produces the same
\* sequence, so a sample that was produced before is produced again
Samples(dist, v) ==
    dist.n < Len(StreamOf(dist.seed)) => v = StreamOf(dist.seed)[dist.n + 1]

\* the streams once dist.sample() has returned v
Drawn(dist, v) ==
    IF dist.n < Len(StreamOf(dist.seed)) THEN streams
    ELSE [k \in DOMAIN streams \cup {dist.seed} |->
            IF k = dist.seed THEN Append(StreamOf(k), v) ELSE streams[k]]

\* no Trial is involved in the run of a single Model
NoTrial == [pc |-> "none"]

\* --------------------------------------------------------- construction
\* Model(param, run_number): a Model that has not run yet
NewModel(n) ==
    /\ run_number = n
    /\ rng = Distributions(run_number, MaxRunNumber + 1)
    /\ streams = <<>>
    /\ previous = <<>>
    /\ trial = NoTrial
    /\ param \in [number_of_nurses : NurseNumbers,
                  sim_duration : SimDurations,
                  warm_up_period : WarmUps,
                  audit_interval : AuditIntervals]
    /\ phase = "init"
    /\ now = 0
    /\ events = {}
    /\ eid = 0
    /\ patient_counter = 0
    /\ patients = <<>>
    /\ users = {}
    /\ queue = <<>>
    /\ nurse_time_used = 0
    /\ results_list = <<>>
    /\ utilisation_audit = <<>>
    /\ requested = <<>>
    /\ granted = <<>>
    /\ area_busy = 0
    /\ area_queue = 0
    /\ time_last_event = 0

\* run_number is 0 unless the caller gives one
Init == NewModel(0)

\* a Model of any replication index
InitSeed == \E n \in RunNumbers : NewModel(n)

\* ------------------------------------------------------------ Model.run
\* variant: the first step of the auditor is an ordinary event, so that the
\* first patient, started at time 0 as well, is resumed before it
run_auditor_normal_priority ==
    /\ phase = "init"
    /\ IF RunUntil <= now
         THEN /\ phase' = "error"
              /\ events' = {Event(now, URGENT, 0, "init_gen", 0),
                            Event(now, NORMAL, 1, "init_audit", 0)}
              /\ eid' = 2
         ELSE /\ phase' = "running"
              /\ events' = {Event(now, URGENT, 0, "init_gen", 0),
                            Event(now, NORMAL, 1, "init_audit", 0),
                            Event(RunUntil, URGENT, 2, "until", 0)}
              /\ eid' = 3
    /\ UNCHANGED <<others, sampling,
                   monitor, param, now, patient_counter, patients, users, queue,
                   nurse_time_used, results_list, utilisation_audit,
                   requested, granted>>

\* starts the generator and the auditor and schedules the stop event;
\* env.run(until) raises ValueError when until <= env.now
run ==
    /\ phase = "init"
    /\ IF RunUntil <= now
         THEN /\ phase' = "error"
              /\ events' = {Event(now, URGENT, 0, "init_gen", 0),
                            Event(now, URGENT, 1, "init_audit", 0)}
              /\ eid' = 2
         ELSE /\ phase' = "running"
              /\ events' = {Event(now, URGENT, 0, "init_gen", 0),
                            Event(now, URGENT, 1, "init_audit", 0),
                            Event(RunUntil, URGENT, 2, "until", 0)}
              /\ eid' = 3
    /\ UNCHANGED <<others, sampling,
                   monitor, param, now, patient_counter, patients, users, queue,
                   nurse_time_used, results_list, utilisation_audit,
                   requested, granted>>

\* -------------------------------------------------------- simpy.Resource
Min(a, b) == IF a <= b THEN a ELSE b

\* variant: the most recent request is served first
TriggerPutNewestFirst(us, q, cap) ==
    IF q # <<>> /\ Cardinality(us) < cap
      THEN [users |-> us \cup {q[Len(q)]}, queue |-> SubSeq(q, 1, Len(q) - 1),
            grant |-> q[Len(q)]]
      ELSE [users |-> us, queue |-> q, grant |-> 0]

\* Resource._trigger_put / _do_put: the head of the put queue is granted a
\* nurse when one is free; at most one request is granted per call
TriggerPut(us, q, cap) ==
    IF q # <<>> /\ Cardinality(us) < cap
      THEN [users |-> us \cup {Head(q)}, queue |-> Tail(q), grant |-> Head(q)]
      ELSE [users |-> us, queue |-> q, grant |-> 0]

\* variant: a request is granted whether or not a nurse is free
RequestNoCapacityCheck(us, q, cap, p) ==
    [users |-> us \cup {p}, queue |-> q, grant |-> p]

\* nurse.request(): the request joins the put queue, then the queue is served
Request(us, q, cap, p) == TriggerPut(us, Append(q, p), cap)

\* a granted request succeeds: its event is scheduled at the current time
Grant(evs, n, t, g) ==
    IF g = 0 THEN evs ELSE evs \cup {Event(t, NORMAL, n, "request", g)}

\* ------------------------------------------ Model.generator_patient_arrivals
\* Patient(p_id), with the time it was created and the inter-arrival time
\* sampled right after it (the n-th sample of the arrival distribution)
NewPatient(n, t, g) ==
    [id |-> n, arrival |-> t, start_q |-> -1, end_q |-> -1, service |-> -1,
     left |-> -1, q_time_nurse |-> 0, gap_after |-> g]

generator_patient_arrivals ==
    /\ Running
    /\ NextEvent.kind \in {"init_gen", "gen_timeout"}
    /\ \E sampled_inter \in Gaps :
         LET e == NextEvent
             t == e.time
         IN /\ Samples(rng.inter, sampled_inter)
            /\ streams' = Drawn(rng.inter, sampled_inter)
            /\ rng' = [rng EXCEPT !.inter.n = @ + 1]
            /\ now' = t
            /\ patient_counter' = patient_counter + 1
            /\ patients' = Append(patients,
                            NewPatient(patient_counter + 1, t, sampled_inter))
            /\ events' = (events \ {e}) \cup
                 {Event(t, URGENT, eid, "init_patient", patient_counter + 1),
                  Event(t + sampled_inter, NORMAL, eid + 1, "gen_timeout", 0)}
            /\ eid' = eid + 2
    /\ UNCHANGED <<others,
                   monitor, param, phase, users, queue, nurse_time_used, results_list,
                   utilisation_audit, requested, granted>>

\* ------------------------------------------------------ Model.attend_clinic
\* first step: note the time and request a nurse
attend_clinic_request ==
    /\ Running
    /\ NextEvent.kind = "init_patient"
    /\ LET e == NextEvent
           t == e.time
           p == e.pid
           r == Request(users, queue, param.number_of_nurses, p)
       IN /\ now' = t
          /\ patients' = [patients EXCEPT ![p].start_q = t]
          /\ users' = r.users
          /\ queue' = r.queue
          /\ events' = Grant(events \ {e}, eid, t, r.grant)
          /\ eid' = IF r.grant = 0 THEN eid ELSE eid + 1
          /\ requested' = Append(requested, p)
          /\ granted' = IF r.grant = 0 THEN granted
                        ELSE Append(granted, r.grant)
    /\ UNCHANGED <<others, sampling,
                   monitor, param, phase, patient_counter, nurse_time_used,
                   results_list, utilisation_audit>>

\* variant: the two timestamps are subtracted the wrong way round
QTimeSwapped(start_q_nurse, end_q_nurse) == start_q_nurse - end_q_nurse

QTime(start_q_nurse, end_q_nurse) == end_q_nurse - start_q_nurse

\* variant: results are saved from the start of the run
WarmUpIgnored(t) == t >= 0

\* "Only save results if the warm up period has passed"
WarmUpPassed(t) == t >= param.warm_up_period

\* variant: the consultation is counted in full
NurseTimeUnclamped(sampled_nurse_act_time, t) == sampled_nurse_act_time

\* the nurse time of one consultation, cut at the end of the run
NurseTime(sampled_nurse_act_time, t) ==
    Min(sampled_nurse_act_time, Horizon - t)

ResultRow(p, q, s) ==
    [patient_id |-> p, q_time_nurse |-> q, time_with_nurse |-> s]

\* second step: the request was granted; record and start the consultation
attend_clinic_consult ==
    /\ Running
    /\ NextEvent.kind = "request"
    /\ \E sampled_nurse_act_time \in Services :
         LET e == NextEvent
             t == e.time
             p == e.pid
             q == QTime(patients[p].start_q, t)
         IN /\ Samples(rng.consult, sampled_nurse_act_time)
            /\ streams' = Drawn(rng.consult, sampled_nurse_act_time)
            /\ rng' = [rng EXCEPT !.consult.n = @ + 1]
            /\ now' = t
            /\ patients' = [patients EXCEPT
                              ![p].end_q = t,
                              ![p].q_time_nurse = q,
                              ![p].service = sampled_nurse_act_time]
            /\ IF WarmUpPassed(t)
                 THEN /\ results_list' = Append(results_list,
                             ResultRow(p, q, sampled_nurse_act_time))
                      /\ nurse_time_used' = nurse_time_used +
                             NurseTime(sampled_nurse_act_time, t)
                 ELSE UNCHANGED <<results_list, nurse_time_used>>
            /\ events' = (events \ {e}) \cup
                 {Event(t + sampled_nurse_act_time, NORMAL, eid,
                        "consult_timeout", p)}
            /\ eid' = eid + 1
    /\ UNCHANGED <<others,
                   monitor, param, phase, patient_counter, users, queue,
                   utilisation_audit, requested, granted>>

\* variant: the consultation ends without the nurse being given back
attend_clinic_release_keeps_nurse ==
    /\ Running
    /\ NextEvent.kind = "consult_timeout"
    /\ LET e == NextEvent
           t == e.time
           p == e.pid
       IN /\ now' = t
          /\ patients' = [patients EXCEPT ![p].left = t]
          /\ events' = (events \ {e}) \cup
                 {Event(t, NORMAL, eid, "release", p)}
          /\ eid' = eid + 1
    /\ UNCHANGED <<others, sampling,
                   monitor, param, phase, patient_counter, users, queue,
                   nurse_time_used, results_list, utilisation_audit,
                   requested, granted>>

\* third step: the consultation is over; leaving the with block releases the
\* nurse.  The Release event is scheduled and serves the queue when processed.
attend_clinic_release ==
    /\ Running
    /\ NextEvent.kind = "consult_timeout"
    /\ LET e == NextEvent
           t == e.time
           p == e.pid
       IN /\ now' = t
          /\ patients' = [patients EXCEPT ![p].left = t]
          /\ users' = users \ {p}
          /\ events' = (events \ {e}) \cup
                 {Event(t, NORMAL, eid, "release", p)}
          /\ eid' = eid + 1
    /\ UNCHANGED <<others, sampling,
                   monitor, param, phase, patient_counter, queue, nurse_time_used,
                   results_list, utilisation_audit, requested, granted>>

\* variant: the Release event is processed without serving the queue
release_without_trigger_put ==
    /\ Running
    /\ NextEvent.kind = "release"
    /\ now' = NextEvent.time
    /\ events' = events \ {NextEvent}
    /\ UNCHANGED <<others, sampling, monitor, param, phase, eid,
                   patient_counter, patients, users, queue, nurse_time_used,
                   results_list, utilisation_audit, requested, granted>>

\* the Release event's callback: Resource._trigger_put
release_trigger_put ==
    /\ Running
    /\ NextEvent.kind = "release"
    /\ LET e == NextEvent
           t == e.time
           r == TriggerPut(users, queue, param.number_of_nurses)
       IN /\ now' = t
          /\ users' = r.users
          /\ queue' = r.queue
          /\ events' = Grant(events \ {e}, eid, t, r.grant)
          /\ eid' = IF r.grant = 0 THEN eid ELSE eid + 1
          /\ granted' = IF r.grant = 0 THEN granted
                        ELSE Append(granted, r.grant)
    /\ UNCHANGED <<others, sampling,
                   monitor, param, phase, patient_counter, patients, nurse_time_used,
                   results_list, utilisation_audit, requested>>

\* ------------------------------------------ Model.interval_audit_utilisation
\* variant: waiting patients are counted as utilising a nurse
AuditRowCountsQueue(t, us, cap, q) ==
    [resource_name |-> "nurse", simulation_time |-> t,
     number_utilised |-> Cardinality(us) + Len(q), number_available |-> cap,
     queue_length |-> Len(q)]

AuditRow(t, us, cap, q) ==
    [resource_name |-> "nurse", simulation_time |-> t,
     number_utilised |-> Cardinality(us), number_available |-> cap,
     queue_length |-> Len(q)]

interval_audit_utilisation ==
    /\ Running
    /\ NextEvent.kind \in {"init_audit", "audit_timeout"}
    /\ LET e == NextEvent
           t == e.time
       IN /\ now' = t
          /\ utilisation_audit' =
               IF WarmUpPassed(t)
                 THEN Append(utilisation_audit,
                        AuditRow(t, users, param.number_of_nurses, queue))
                 ELSE utilisation_audit
          /\ events' = (events \ {e}) \cup
                 {Event(t + param.audit_interval, NORMAL, eid,
                        "audit_timeout", 0)}
          /\ eid' = eid + 1
    /\ UNCHANGED <<others, sampling,
                   monitor, param, phase, patient_counter, patients, users, queue,
                   nurse_time_used, results_list, requested, granted>>

\* the stop event: env.run returns with the clock at the horizon
stop ==
    /\ Running
    /\ NextEvent.kind = "until"
    /\ now' = NextEvent.time
    /\ events' = events \ {NextEvent}
    /\ phase' = "done"
    /\ UNCHANGED <<others, sampling,
                   monitor, param, eid, patient_counter, patients, users, queue,
                   nurse_time_used, results_list, utilisation_audit,
                   requested, granted>>

\* ----------------------------------------------------- MonitoredResource
\* update_time_weighted_stats: the time since the last update is weighted by
\* the in-use count and the queue length that held during it
UpdateTimeWeightedStats(ab, aq, last, us, q, t) ==
    [area_busy |-> ab + Cardinality(us) * (t - last),
     area_queue |-> aq + Len(q) * (t - last),
     time_last_event |-> t]

\* request(): the statistics are brought up to date, then the request is made
MonitoredRequest(us, q, cap, p, ab, aq, last, t) ==
    [stats |-> UpdateTimeWeightedStats(ab, aq, last, us, q, t),
     res |-> Request(us, q, cap, p)]

\* variant: the elapsed time is weighted by the state after the release
MonitoredReleaseNewState(us, q, p, ab, aq, last, t) ==
    [stats |-> UpdateTimeWeightedStats(ab, aq, last, us \ {p}, q, t),
     users |-> us \ {p}]

\* release(): the statistics are brought up to date, then the nurse is freed
MonitoredRelease(us, q, p, ab, aq, last, t) ==
    [stats |-> UpdateTimeWeightedStats(ab, aq, last, us, q, t),
     users |-> us \ {p}]

\* ------------------------------------------ test_monitoredresource_cleanup
\* three tasks request one MonitoredResource at time 0 and hold it for their
\* duration; the run is cut at run_length and the statistics are flushed
RunLength == 12
DurationA == 5
DurationB == 10
DurationC == 15
TaskDurations == {DurationA, DurationB, DurationC}
RunLengths == {RunLength, 2 * RunLength}

Task(n, d) ==
    [id |-> n, arrival |-> 0, start_q |-> -1, end_q |-> -1, service |-> d,
     left |-> -1, q_time_nurse |-> 0]

InitTasks ==
    /\ run_number = 0
    /\ rng = Distributions(run_number, MaxRunNumber + 1)
    /\ streams = <<>>
    /\ previous = <<>>
    /\ trial = NoTrial
    /\ param \in [number_of_nurses : NurseNumbers,
                  sim_duration : RunLengths,
                  warm_up_period : {0},
                  audit_interval : {1}]
    /\ phase = "running"
    /\ now = 0
    /\ events = {Event(0, URGENT, 0, "init_task", 1),
                 Event(0, URGENT, 1, "init_task", 2),
                 Event(0, URGENT, 2, "init_task", 3),
                 Event(Horizon, URGENT, 3, "until", 0)}
    /\ eid = 4
    /\ patient_counter = 3
    /\ \E a \in TaskDurations, b \in TaskDurations, c \in TaskDurations :
         patients = <<Task(1, a), Task(2, b), Task(3, c)>>
    /\ users = {}
    /\ queue = <<>>
    /\ nurse_time_used = 0
    /\ results_list = <<>>
    /\ utilisation_audit = <<>>
    /\ requested = <<>>
    /\ granted = <<>>
    /\ area_busy = 0
    /\ area_queue = 0
    /\ time_last_event = 0

\* process_task, first step: request the resource
task_request ==
    /\ Running
    /\ NextEvent.kind = "init_task"
    /\ LET e == NextEvent
           t == e.time
           p == e.pid
           m == MonitoredRequest(users, queue, param.number_of_nurses, p,
                                 area_busy, area_queue, time_last_event, t)
       IN /\ now' = t
          /\ patients' = [patients EXCEPT ![p].start_q = t]
          /\ area_busy' = m.stats.area_busy
          /\ area_queue' = m.stats.area_queue
          /\ time_last_event' = m.stats.time_last_event
          /\ users' = m.res.users
          /\ queue' = m.res.queue
          /\ events' = Grant(events \ {e}, eid, t, m.res.grant)
          /\ eid' = IF m.res.grant = 0 THEN eid ELSE eid + 1
          /\ requested' = Append(requested, p)
          /\ granted' = IF m.res.grant = 0 THEN granted
                        ELSE Append(granted, m.res.grant)
    /\ UNCHANGED <<others, sampling,
                   param, phase, patient_counter, nurse_time_used,
                   results_list, utilisation_audit>>

\* process_task, second step: the request was granted; hold for the duration
task_hold ==
    /\ Running
    /\ NextEvent.kind = "request"
    /\ LET e == NextEvent
           t == e.time
           p == e.pid
       IN /\ now' = t
          /\ patients' = [patients EXCEPT ![p].end_q = t]
          /\ events' = (events \ {e}) \cup
                 {Event(t + patients[p].service, NORMAL, eid,
                        "consult_timeout", p)}
          /\ eid' = eid + 1
    /\ UNCHANGED <<others, sampling,
                   monitor, param, phase, patient_counter, users, queue,
                   nurse_time_used, results_list, utilisation_audit,
                   requested, granted>>

\* process_task, third step: the duration is over; release the resource
task_release ==
    /\ Running
    /\ NextEvent.kind = "consult_timeout"
    /\ LET e == NextEvent
           t == e.time
           p == e.pid
           m == MonitoredRelease(users, queue, p,
                                 area_busy, area_queue, time_last_event, t)
       IN /\ now' = t
          /\ patients' = [patients EXCEPT ![p].left = t]
          /\ area_busy' = m.stats.area_busy
          /\ area_queue' = m.stats.area_queue
          /\ time_last_event' = m.stats.time_last_event
          /\ users' = m.users
          /\ events' = (events \ {e}) \cup
                 {Event(t, NORMAL, eid, "release", p)}
          /\ eid' = eid + 1
    /\ UNCHANGED <<others, sampling,
                   param, phase, patient_counter, queue, nurse_time_used,
                   results_list, utilisation_audit, requested, granted>>

\* after the run: update_time_weighted_stats accounts for the time between
\* the last request or release and the end of the run
flush_tail ==
    /\ phase = "done"
    /\ LET st == UpdateTimeWeightedStats(area_busy, area_queue,
                                         time_last_event, users, queue, now)
       IN /\ area_busy' = st.area_busy
          /\ area_queue' = st.area_queue
          /\ time_last_event' = st.time_last_event
    /\ phase' = "flushed"
    /\ UNCHANGED <<others, sampling,
                   param, now, events, eid, patient_counter, patients, users,
                   queue, nurse_time_used, results_list, utilisation_audit,
                   requested, granted>>

\* ------------------------------------------------------------- Defaults
\* the class attributes of Defaults
DefaultPatientInter == 5
DefaultConsultTime == 35
DefaultNurses == 9
DefaultSimDuration == 600
DefaultWarmUp == 0
DefaultRuns == 5
DefaultAuditInterval == 5
DefaultScenario == 0

\* Defaults(): an object with the attributes of the class
Defaults ==
    [patient_inter |-> DefaultPatientInter,
     mean_n_consult_time |-> DefaultConsultTime,
     number_of_nurses |-> DefaultNurses,
     sim_duration |-> DefaultSimDuration,
     warm_up_period |-> DefaultWarmUp,
     number_of_runs |-> DefaultRuns,
     audit_interval |-> DefaultAuditInterval,
     scenario_name |-> DefaultScenario]

\* the recognised configuration fields
DefaultFields == DOMAIN Defaults

\* attribute names and values a caller assigns
AttributeNames == DefaultFields \cup {"new_entry"}
AttributeValues == {0, 3}

\* a Defaults object on which attributes are being set; no Model exists yet
InitDefaults ==
    /\ param = Defaults
    /\ phase = "new"
    /\ now = 0
    /\ events = {}
    /\ eid = 0
    /\ patient_counter = 0
    /\ patients = <<>>
    /\ users = {}
    /\ queue = <<>>
    /\ nurse_time_used = 0
    /\ results_list = <<>>
    /\ utilisation_audit = <<>>
    /\ requested = <<>>
    /\ granted = <<>>
    /\ area_busy = 0
    /\ area_queue = 0
    /\ time_last_event = 0
    /\ run_number = 0
    /\ rng = Distributions(run_number, MaxRunNumber + 1)
    /\ streams = <<>>
    /\ previous = <<>>
    /\ trial = NoTrial

\* param.<name> = value: a dataclass without a __setattr__ of its own stores
\* any attribute, known to the class or not
SetAttribute(obj, name, value) ==
    [n \in DOMAIN obj \cup {name} |-> IF n = name THEN value ELSE obj[n]]

set_attribute ==
    /\ phase = "new"
    /\ \E name \in AttributeNames, value \in AttributeValues :
         param' = SetAttribute(param, name, value)
    /\ UNCHANGED <<others, sampling, monitor, phase, now, events, eid,
                   patient_counter, patients, users, queue, nurse_time_used,
                   results_list, utilisation_audit, requested, granted>>

\* ------------------------------------------- Model with invalid parameters
\* a warm-up period or a data-collection period below zero
IsInvalid(p) == p.sim_duration < 0 \/ p.warm_up_period < 0

InvalidParams ==
    {p \in [number_of_nurses : NurseNumbers,
            sim_duration : SimDurations \cup {-1},
            warm_up_period : WarmUps \cup {-1},
            audit_interval : AuditIntervals] : IsInvalid(p)}

\* a caller is about to construct a Model from an invalid configuration
InitInvalid ==
    /\ param \in InvalidParams
    /\ phase = "new"
    /\ now = 0
    /\ events = {}
    /\ eid = 0
    /\ patient_counter = 0
    /\ patients = <<>>
    /\ users = {}
    /\ queue = <<>>
    /\ nurse_time_used = 0
    /\ results_list = <<>>
    /\ utilisation_audit = <<>>
    /\ requested = <<>>
    /\ granted = <<>>
    /\ area_busy = 0
    /\ area_queue = 0
    /\ time_last_event = 0
    /\ run_number \in RunNumbers
    /\ rng = Distributions(run_number, MaxRunNumber + 1)
    /\ streams = <<>>
    /\ previous = <<>>
    /\ trial = NoTrial

\* Model.__init__: stores the parameters and builds the environment, the
\* resource and the distributions; it checks nothing
Model_init ==
    /\ phase = "new"
    /\ phase' = "init"
    /\ UNCHANGED <<others, sampling, monitor, param, now, events, eid,
                   patient_counter, patients, users, queue, nurse_time_used,
                   results_list, utilisation_audit, requested, granted>>

\* ---------------------------------------------------------------- Trial
\* values of param.number_of_runs and of the cores argument of run_trial
\* (1 is sequential, -1 is every core)
RunCounts == 1..MaxRuns
Cores == {1, 2, -1}

\* Trial(param): the parameters and three empty dataframes
NewTrial(p, c) ==
    [param |-> p, cores |-> c, pc |-> "ready",
     started |-> {}, failed |-> {}, all_results |-> <<>>, error |-> "none",
     patient_results_df |-> <<>>, trial_results_df |-> <<>>,
     interval_audit_df |-> <<>>]

InitTrial ==
    /\ \E n \in RunCounts, k \in NurseNumbers, w \in WarmUps, c \in Cores :
         trial = NewTrial([Defaults EXCEPT !.number_of_runs = n,
                                           !.number_of_nurses = k,
                                           !.warm_up_period = w], c)
    /\ param = trial.param
    /\ phase = "new"
    /\ now = 0
    /\ events = {}
    /\ eid = 0
    /\ patient_counter = 0
    /\ patients = <<>>
    /\ users = {}
    /\ queue = <<>>
    /\ nurse_time_used = 0
    /\ results_list = <<>>
    /\ utilisation_audit = <<>>
    /\ requested = <<>>
    /\ granted = <<>>
    /\ area_busy = 0
    /\ area_queue = 0
    /\ time_last_event = 0
    /\ run_number = 0
    /\ rng = Distributions(run_number, MaxRunNumber + 1)
    /\ streams = <<>>
    /\ previous = <<>>

\* the replication indices of a trial: range(self.param.number_of_runs)
Runs(tr) == 0..(tr.param.number_of_runs - 1)

\* the arguments run_single passes to Model: Model(run_number=run)
ModelArguments(tr, index) == [run_number |-> index]

\* the parameters of Model.__init__ that have no default value
RequiredArguments == {"param"}

\* what a replication returns when its Model could be built and run: the
\* three result sets of the run, each tagged with the run number
Replication(tr, index) ==
    [ok |-> TRUE,
     patient |-> <<[run |-> index]>>,
     trial |-> [run_number |-> index, scenario |-> tr.param.scenario_name],
     interval_audit |-> <<[run |-> index]>>]

\* Trial.run_single(run): the call of Model without its required argument
\* raises TypeError before any Model exists
RunSingle(tr, index) ==
    IF RequiredArguments \subseteq DOMAIN ModelArguments(tr, index)
      THEN Replication(tr, index)
      ELSE [ok |-> FALSE, error |-> "TypeError"]

\* the number of replications that may be in progress at once
Workers(tr) == IF tr.cores = 1 THEN 1 ELSE tr.param.number_of_runs

RECURSIVE Concat(_, _, _, _)
\* pd.concat of one result set over the runs lo..hi, in that order
Concat(res, field, lo, hi) ==
    IF lo > hi THEN <<>>
    ELSE res[lo][field] \o Concat(res, field, lo + 1, hi)

\* variant: failed replications are dropped and the others are merged
CollectSkippingFailures(tr) ==
    [tr EXCEPT !.pc = "returned"]

\* the end of run_trial: an exception of a replication leaves run_trial
\* before the dataframes are assigned; otherwise the results are merged in
\* the order of the run numbers
Collect(tr) ==
    IF tr.failed # {}
      THEN [tr EXCEPT !.pc = "raised", !.error = "TypeError"]
      ELSE [tr EXCEPT
              !.pc = "returned",
              !.patient_results_df =
                  Concat(tr.all_results, "patient", 0,
                         tr.param.number_of_runs - 1),
              !.trial_results_df =
                  [i \in 1..tr.param.number_of_runs |->
                      tr.all_results[i - 1].trial],
              !.interval_audit_df =
                  Concat(tr.all_results, "interval_audit", 0,
                         tr.param.number_of_runs - 1)]

TrialFrame ==
    UNCHANGED <<sampling, monitor, param, phase, now, events, eid,
                patient_counter, patients, users, queue, nurse_time_used,
                results_list, utilisation_audit, requested, granted,
                run_number, previous>>

\* run_trial is called
run_trial ==
    /\ trial.pc = "ready"
    /\ trial' = [trial EXCEPT !.pc = "running"]
    /\ TrialFrame

\* the next replication is started: in order, one at a time when sequential,
\* and never after an exception when sequential
run_single_start ==
    /\ trial.pc = "running"
    /\ \E index \in Runs(trial) \ trial.started :
         /\ \A r \in Runs(trial) : r < index => r \in trial.started
         /\ Cardinality(trial.started \
                        (trial.failed \cup DOMAIN trial.all_results))
              < Workers(trial)
         /\ trial.cores = 1 => trial.failed = {}
         /\ trial' = [trial EXCEPT !.started = @ \cup {index}]
    /\ TrialFrame

\* a replication in progress ends, with a result or with an exception
run_single_end ==
    /\ trial.pc = "running"
    /\ \E index \in trial.started \
                  (trial.failed \cup DOMAIN trial.all_results) :
         LET r == RunSingle(trial, index)
         IN trial' =
              IF r.ok
                THEN [trial EXCEPT !.all_results =
                        [k \in DOMAIN @ \cup {index} |->
                            IF k = index THEN r ELSE @[k]]]
                ELSE [trial EXCEPT !.failed = @ \cup {index}]
    /\ TrialFrame

\* run_trial ends: with the exception of a failed replication, or with the
\* merged dataframes once every replication has returned
run_trial_end ==
    /\ trial.pc = "running"
    /\ \/ trial.failed # {}
       \/ DOMAIN trial.all_results = Runs(trial)
    /\ trial' = Collect(trial)
    /\ TrialFrame

\* ================================================================ claims
PatientIds == 1..patient_counter

Max(a, b) == IF a >= b THEN a ELSE b

\* the part of [lo, hi] during which patient record pt held a nurse
Held(pt, lo, hi) ==
    IF pt.end_q < 0 THEN 0
    ELSE Max(0, Min(IF pt.left >= 0 THEN pt.left ELSE hi, hi)
                - Max(pt.end_q, lo))

\* the part of [lo, hi] during which patient record pt waited in the queue
Waited(pt, lo, hi) ==
    IF pt.start_q < 0 THEN 0
    ELSE Max(0, Min(IF pt.end_q >= 0 THEN pt.end_q ELSE hi, hi)
                - Max(pt.start_q, lo))

RECURSIVE InUseIntegral(_, _, _)
\* integral of the number of nurses in use over [lo, hi], patient by patient
InUseIntegral(n, lo, hi) ==
    IF n = 0 THEN 0
    ELSE InUseIntegral(n - 1, lo, hi) + Held(patients[n], lo, hi)

RECURSIVE QueueIntegral(_, _, _)
\* integral of the queue length over [lo, hi], patient by patient
QueueIntegral(n, lo, hi) ==
    IF n = 0 THEN 0
    ELSE QueueIntegral(n - 1, lo, hi) + Waited(patients[n], lo, hi)

\* C1: nurse grants are issued in request order: the patients granted so far
\* are exactly the first requesters, in the order they requested.
C1_GrantsInRequestOrder ==
    /\ Len(granted) <= Len(requested)
    /\ \A i \in 1..Len(granted) : granted[i] = requested[i]

\* two patients waited in the queue together and the earlier one was granted
C1_Witness ==
    \E p \in PatientIds, q \in PatientIds :
        /\ patients[p].start_q >= 0
        /\ patients[p].start_q < patients[q].start_q
        /\ patients[q].start_q < patients[p].end_q
        /\ patients[p].q_time_nurse > 0
        /\ \E i \in 1..Len(queue) : queue[i] = q

\* C2: the number of nurses in use stays within 0..number_of_nurses.
C2_InUseWithinCapacity ==
    /\ 0 <= Cardinality(users)
    /\ Cardinality(users) <= param.number_of_nurses

\* every nurse is in use and a patient is waiting
C2_Witness ==
    /\ Cardinality(users) = param.number_of_nurses
    /\ queue # <<>>

\* C3: every row of the patient-level results belongs to a patient who
\* arrived at or after the end of the warm-up period.
C3_RowsArrivedAfterWarmUp ==
    \A i \in 1..Len(results_list) :
        patients[results_list[i].patient_id].arrival >= param.warm_up_period

\* Trial.run_single, the run-level figures taken from a finished Model:
\* 'arrivals' is the number of patient-level rows
Arrivals == Len(results_list)

\* 'average_nurse_utilisation' is UtilisationNumerator / UtilisationDenominator
UtilisationNumerator == nurse_time_used

UtilisationDenominator == param.number_of_nurses * param.sim_duration

\* the rows of the patient-level results that belong to patient p
RowsOf(p) == {i \in 1..Len(results_list) : results_list[i].patient_id = p}

\* a value that is no number
IsNaN(v) == v \notin Int

\* C4: at the horizon the patient-level results hold exactly one row for each
\* patient that arrived in the data-collection window, queued and in-service
\* patients included, and 'arrivals' is that number of rows.
C4_OneRowPerArrival ==
    phase = "done" =>
        /\ \A p \in PatientIds :
             IF patients[p].arrival >= param.warm_up_period
               THEN Cardinality(RowsOf(p)) = 1
               ELSE RowsOf(p) = {}
        /\ Arrivals = Cardinality({p \in PatientIds :
                           patients[p].arrival >= param.warm_up_period})

\* C5: a patient of the data-collection window still waiting for a nurse at
\* the end of the run has a row whose queue wait and service time are NaN.
C5_UnservedReportedNaN ==
    phase = "done" =>
        \A p \in PatientIds :
            (/\ patients[p].arrival >= param.warm_up_period
             /\ \E k \in 1..Len(queue) : queue[k] = p)
            => \E i \in RowsOf(p) :
                   /\ IsNaN(results_list[i].q_time_nurse)
                   /\ IsNaN(results_list[i].time_with_nurse)

\* C6: at the end of a run the utilisation from the clamped busy time and the
\* time-weighted utilisation over the data-collection window differ by at
\* most 0.001 (both have the denominator number_of_nurses * sim_duration).
C6_UtilisationsAgree ==
    (phase = "done" /\ param.sim_duration > 0) =>
        LET tw == InUseIntegral(patient_counter, param.warm_up_period, Horizon)
            d == UtilisationNumerator - tw
        IN /\ 1000 * d <= UtilisationDenominator
           /\ 1000 * (0 - d) <= UtilisationDenominator

\* C8: with a data-collection period the run-level nurse utilisation lies in
\* [0, 1]: nurse_time_used never exceeds number_of_nurses * sim_duration.
C8_UtilisationInUnitInterval ==
    param.sim_duration > 0 =>
        /\ 0 <= UtilisationNumerator
        /\ UtilisationNumerator <= UtilisationDenominator

\* a run with one nurse ended while a recorded consultation was still going on
C8_Witness ==
    /\ phase = "done"
    /\ param.number_of_nurses = 1
    /\ param.sim_duration > 0
    /\ queue # <<>>
    /\ \E i \in 1..Len(results_list) :
          LET pt == patients[results_list[i].patient_id]
          IN pt.end_q + pt.service > Horizon

\* C9: every interval-audit row has number_utilised / number_available in
\* [0, 1] and a queue length >= 0.
C9_AuditRowsInRange ==
    \A i \in 1..Len(utilisation_audit) :
        LET row == utilisation_audit[i]
        IN /\ row.number_available > 0
           /\ 0 <= row.number_utilised
           /\ row.number_utilised <= row.number_available
           /\ row.queue_length >= 0

\* an audit row taken with the only nurse busy and patients waiting
C9_Witness ==
    \E i \in 1..Len(utilisation_audit) :
        /\ utilisation_audit[i].number_available = 1
        /\ utilisation_audit[i].number_utilised = 1
        /\ utilisation_audit[i].queue_length > 1

\* C10: every patient-level row has queue wait >= 0 and service time >= 0,
\* the queue wait being the grant time minus the request time.
C10_RowsNonNegative ==
    \A i \in 1..Len(results_list) :
        LET row == results_list[i]
            pt == patients[row.patient_id]
        IN /\ row.q_time_nurse >= 0
           /\ row.time_with_nurse >= 0
           /\ row.q_time_nurse = pt.end_q - pt.start_q

\* a recorded patient who had to wait
C10_Witness ==
    \E i \in 1..Len(results_list) :
        /\ results_list[i].q_time_nurse > 0
        /\ results_list[i].time_with_nurse > 0

\* C7: once the run is stopped and the statistics are flushed, the busy area
\* is the integral of the in-use count and the queue area the integral of the
\* queue length over the whole run; one resource and the tasks 5, 10, 15 cut
\* at time 12 give a busy area of 12 and a queue area of 17.
C7_AreasAreIntegrals ==
    phase = "flushed" =>
        /\ area_busy = InUseIntegral(patient_counter, 0, now)
        /\ area_queue = QueueIntegral(patient_counter, 0, now)
        /\ (/\ param.number_of_nurses = 1
            /\ now = RunLength
            /\ patients[1].service = DurationA
            /\ patients[2].service = DurationB
            /\ patients[3].service = DurationC)
           => (area_busy = 12 /\ area_queue = 17)

\* the example of the test: task B holds the resource and task C still waits
C7_Witness ==
    /\ phase = "flushed"
    /\ param.number_of_nurses = 1
    /\ now = RunLength
    /\ patients[1].service = DurationA /\ patients[1].left = 5
    /\ patients[2].service = DurationB /\ patients[2].end_q = 5
    /\ patients[3].service = DurationC
    /\ users = {2}
    /\ queue = <<3>>

\* C11: with no data-collection period a run leaves the patient-level
\* results and the interval audit empty and nurse_time_used at 0, whatever
\* the warm-up period.
C11_WarmUpOnlyRecordsNothing ==
    param.sim_duration = 0 =>
        /\ results_list = <<>>
        /\ utilisation_audit = <<>>
        /\ nurse_time_used = 0

\* a warm-up-only run has ended; patients were granted a nurse during it, and
\* an audit and the end of a consultation were due at the very end of it
C11_Witness ==
    /\ phase = "done"
    /\ param.sim_duration = 0
    /\ param.warm_up_period > 0
    /\ now = param.warm_up_period
    /\ granted # <<>>
    /\ \E e \in events : e.kind = "audit_timeout" /\ e.time = now
    /\ \E e \in events : e.kind = "consult_timeout" /\ e.time = now

\* C12: with a warm-up period D > 0 and a data-collection period > 0 the first
\* interval-audit row of a finished run is at simulation time D.
C12_FirstAuditRowAtWarmUp ==
    (/\ phase = "done"
     /\ param.warm_up_period > 0
     /\ param.sim_duration > 0)
    => /\ utilisation_audit # <<>>
       /\ utilisation_audit[1].simulation_time = param.warm_up_period

\* C13: no interval-audit row has a simulation time at or after the end of
\* the run (warm-up plus data collection).
C13_NoAuditRowAtHorizon ==
    \A i \in 1..Len(utilisation_audit) :
        utilisation_audit[i].simulation_time < Horizon

\* a finished run whose length is a multiple of the audit interval: rows were
\* recorded and the audit due at the horizon is still pending
C13_Witness ==
    /\ phase = "done"
    /\ utilisation_audit # <<>>
    /\ param.audit_interval > 1
    /\ \E e \in events : e.kind = "audit_timeout" /\ e.time = Horizon

RECURSIVE SumGaps(_)
\* the sum of the first k sampled inter-arrival times
SumGaps(k) == IF k = 0 THEN 0 ELSE SumGaps(k - 1) + patients[k].gap_after

\* C14: the generator lets an inter-arrival time pass before each patient: the
\* first patient arrives after time 0 and patient k arrives at the sum of the
\* first k sampled inter-arrival times.
C14_GapBeforeEachArrival ==
    \A k \in PatientIds :
        /\ patients[k].arrival > 0
        /\ patients[k].arrival = SumGaps(k)

\* test_seed_stability: once a run is over, a second Model is constructed
\* with the same parameters and the same run number
second_execution ==
    /\ phase = "done"
    /\ previous = <<>>
    /\ previous' = <<results_list>>
    /\ rng' = Distributions(run_number, MaxRunNumber + 2)
    /\ phase' = "init"
    /\ now' = 0
    /\ events' = {}
    /\ eid' = 0
    /\ patient_counter' = 0
    /\ patients' = <<>>
    /\ users' = {}
    /\ queue' = <<>>
    /\ nurse_time_used' = 0
    /\ results_list' = <<>>
    /\ utilisation_audit' = <<>>
    /\ requested' = <<>>
    /\ granted' = <<>>
    /\ UNCHANGED <<monitor, param, run_number, streams, trial>>

\* C15: two runs with the same run number and the same parameters end with
\* the same patient-level results, row for row.
C15_SameSeedSameResults ==
    (phase = "done" /\ previous # <<>>) => results_list = previous[1]

\* the second run is over and its results include a patient who had to wait
C15_Witness ==
    /\ phase = "done"
    /\ previous # <<>>
    /\ Len(results_list) > 1
    /\ \E i \in 1..Len(results_list) : results_list[i].q_time_nurse > 0

\* C18: constructing a Model from an invalid configuration fails at
\* construction, and no simulation event is processed for it.
C18_InvalidParamRejected ==
    (IsInvalid(param) /\ phase # "new") =>
        /\ phase = "rejected"
        /\ eid = 0
        /\ now = 0
        /\ patient_counter = 0
        /\ utilisation_audit = <<>>

\* C20: an attribute that is not a recognised configuration field cannot be
\* set on a Defaults object: its set of fields never changes.
C20_NoNewAttribute ==
    DOMAIN param = DefaultFields

\* run_trial is over
TrialEnded == trial.pc \in {"returned", "raised"}

\* the run numbers of the rows of a table
RunColumn(table) == [i \in 1..Len(table) |-> table[i].run]

\* C16: sequential or parallel, in whatever order the replications finish,
\* run_trial ends with tables whose rows are grouped by run number 0, 1, ..
\* in ascending order, each group being the rows of that replication alone.
C16_TablesIndependentOfMode ==
    TrialEnded =>
        /\ trial.pc = "returned"
        /\ trial.patient_results_df =
              Concat([r \in Runs(trial) |-> Replication(trial, r)],
                     "patient", 0, trial.param.number_of_runs - 1)
        /\ trial.interval_audit_df =
              Concat([r \in Runs(trial) |-> Replication(trial, r)],
                     "interval_audit", 0, trial.param.number_of_runs - 1)
        /\ \A i \in 1..Len(trial.patient_results_df) :
              \A j \in 1..Len(trial.patient_results_df) :
                 i <= j => RunColumn(trial.patient_results_df)[i]
                             <= RunColumn(trial.patient_results_df)[j]

\* C17: run_trial completes and its run-level table has number_of_runs rows,
\* one per run number 0 .. number_of_runs - 1, each from a Model that was
\* given the Trial's own parameters.
C17_OneRowPerReplication ==
    TrialEnded =>
        /\ trial.pc = "returned"
        /\ Len(trial.trial_results_df) = trial.param.number_of_runs
        /\ \A i \in 1..Len(trial.trial_results_df) :
              trial.trial_results_df[i].run_number = i - 1
        /\ \A index \in Runs(trial) :
              "param" \in DOMAIN ModelArguments(trial, index)

\* C19: when a replication has failed, run_trial ends by raising the error
\* and the three tables of the Trial are as they were before the call.
C19_NoPartialMerge ==
    (TrialEnded /\ trial.failed # {}) =>
        /\ trial.pc = "raised"
        /\ trial.error # "none"
        /\ trial.patient_results_df = <<>>
        /\ trial.trial_results_df = <<>>
        /\ trial.interval_audit_df = <<>>

\* a parallel trial has raised after several replications had failed
C19_Witness ==
    /\ trial.pc = "raised"
    /\ trial.cores # 1
    /\ Cardinality(trial.failed) > 1
    /\ trial.started # trial.failed

\* the event a step of the run takes off the event queue
Processed == events \ events'

\* C21 as stated: the clock never moves backwards, the event processed is
\* one with the smallest scheduled time, and among the events pending for
\* that time it is the one that was scheduled first.
C21_TiesInSchedulingOrder ==
    [][/\ now' >= now
       /\ \A e \in Processed :
            /\ now' = e.time
            /\ \A f \in events :
                 \/ f.time > e.time
                 \/ f.time = e.time /\ f.eid >= e.eid]_vars

\* C21 amended: the clock never moves backwards, the event processed is one
\* with the smallest scheduled time, and among the events pending for that
\* time the urgent ones (the start of a process, the stop event) go before
\* the normal ones (timeouts, grants, releases); events of equal priority are
\* processed in the order they were scheduled.
C21_TiesInPriorityThenSchedulingOrder ==
    [][/\ now' >= now
       /\ \A e \in Processed :
            /\ now' = e.time
            /\ \A f \in events :
                 \/ f = e
                 \/ f.time > e.time
                 \/ f.time = e.time /\ f.prio > e.prio
                 \/ f.time = e.time /\ f.prio = e.prio /\ f.eid > e.eid]_vars

\* after the clock has advanced, the event to be processed next is the start
\* of a process although an older timeout is pending for the same time
C21_Witness ==
    /\ Running
    /\ now > 0
    /\ NextEvent.time = now
    /\ NextEvent.prio = URGENT
    /\ NextEvent.kind # "until"
    /\ \E f \in events :
         /\ f.time = now
         /\ f.prio = NORMAL
         /\ f.eid < NextEvent.eid

\* env.run has returned, or has raised because there is no time to run for
Terminated ==
    \/ phase = "done"
    \/ phase = "error" /\ Horizon = 0

\* C22: every run eventually terminates with the clock at the horizon
\* (warm-up + collection duration); the clock never passes the horizon, no
\* event scheduled at or after the horizon is processed, and once the run is
\* over nothing changes the results, the audit or nurse_time_used, whoever
\* is still queued or in service.
C22_RunEndsAtHorizon ==
    /\ <>(Terminated /\ now = Horizon)
    /\ [](now <= Horizon)
    /\ [][\A e \in Processed : e.kind # "until" => e.time < Horizon]_vars
    /\ [][Terminated => UNCHANGED <<now, results_list, nurse_time_used,
                                    utilisation_audit, users, queue>>]_vars

\* the run is over while a patient is in service, another is queued, the
\* generator and the auditor are suspended, and an event scheduled for the
\* horizon itself was left unprocessed
C22_Witness ==
    /\ phase = "done"
    /\ now = Horizon
    /\ users # {}
    /\ queue # <<>>
    /\ \E e \in events : e.kind = "gen_timeout"
    /\ \E e \in events : e.kind = "audit_timeout"
    /\ \E e \in events : e.time = Horizon

\* no event is left for the current time: the next step moves the clock, or
\* the run is over
ClockAboutToAdvance ==
    \/ Running /\ NextEvent.time > now
    \/ phase = "done"

\* C23: whenever the clock is about to advance, a non-empty wait queue
\* implies that every nurse is in use; a patient who requests while a nurse
\* is free and nobody is queued holds a nurse at once, its grant is scheduled
\* for the same time, and its queue wait is 0.
C23_WorkConserving ==
    /\ [](ClockAboutToAdvance =>
            (queue # <<>> => Cardinality(users) = param.number_of_nurses))
    /\ [][\A e \in Processed :
            /\ (/\ e.kind = "init_patient"
                /\ Cardinality(users) < param.number_of_nurses
                /\ queue = <<>>) =>
                  /\ e.pid \in users'
                  /\ queue' = <<>>
                  /\ \E g \in events' :
                       g.kind = "request" /\ g.pid = e.pid /\ g.time = e.time
            /\ (/\ e.kind = "request"
                /\ patients[e.pid].start_q = e.time) =>
                  /\ patients'[e.pid].end_q = patients[e.pid].start_q
                  /\ patients'[e.pid].q_time_nurse = 0]_vars

\* the clock is about to advance with every nurse in use and a patient
\* waiting, after one patient was served without waiting and another was
\* handed a nurse that had just been released
C23_Witness ==
    /\ Running
    /\ NextEvent.time > now
    /\ queue # <<>>
    /\ Cardinality(users) = param.number_of_nurses
    /\ \E p \in PatientIds : patients[p].end_q = patients[p].start_q
                             /\ patients[p].end_q # -1
    /\ \E p \in PatientIds : patients[p].end_q > patients[p].start_q
                             /\ patients[p].start_q # -1

\* the patient's consultation started before the warm-up period had elapsed
StartedInWarmUp(p) ==
    patients[p].end_q # -1 /\ patients[p].end_q < param.warm_up_period

\* C24: a patient granted a nurse before the warm-up has elapsed holds the
\* nurse from the grant until grant time + sampled service time, and neither
\* the grant nor the completion changes results_list or nurse_time_used: the
\* patient never has a row.
C24_WarmUpPatientHoldsNurseUnrecorded ==
    /\ [](\A p \in PatientIds :
            StartedInWarmUp(p) =>
              /\ RowsOf(p) = {}
              /\ patients[p].left = -1 => p \in users
              /\ patients[p].left # -1 =>
                   patients[p].left = patients[p].end_q + patients[p].service)
    /\ [][\A e \in Processed :
            /\ (e.kind = "request" /\ e.time < param.warm_up_period) =>
                  /\ results_list' = results_list
                  /\ nurse_time_used' = nurse_time_used
                  /\ e.pid \in users'
                  /\ \E g \in events' :
                       /\ g.kind = "consult_timeout"
                       /\ g.pid = e.pid
                       /\ g.time = e.time + patients'[e.pid].service
            /\ (e.kind = "consult_timeout" /\ StartedInWarmUp(e.pid)) =>
                  /\ results_list' = results_list
                  /\ nurse_time_used' = nurse_time_used
                  /\ e.pid \in users
                  /\ e.pid \notin users']_vars

\* a patient served during the warm-up has left unrecorded after a
\* consultation of positive length, and the patient who got its nurse
\* had to wait for it and is recorded
C24_Witness ==
    \E p \in PatientIds, q \in PatientIds :
       /\ StartedInWarmUp(p)
       /\ patients[p].service > 0
       /\ patients[p].left # -1
       /\ RowsOf(p) = {}
       /\ patients[q].end_q = patients[p].left
       /\ patients[q].q_time_nurse > 0
       /\ RowsOf(q) # {}
       /\ param.number_of_nurses = 1

GrantedPatients == {granted[i] : i \in 1..Len(granted)}

\* C26: the nurses in use are exactly the patients that were granted a nurse
\* and have not released it; a patient is granted at most once; a patient
\* still holding a nurse has a consultation that has not elapsed; and a
\* release happens once, at grant time + service time.
C26_InUseAreOngoingConsultations ==
    /\ [](/\ users = {p \in GrantedPatients : patients[p].left = -1}
          /\ Cardinality(users) <= param.number_of_nurses
          /\ \A i \in 1..Len(granted) : \A j \in 1..Len(granted) :
                granted[i] = granted[j] => i = j
          /\ \A p \in PatientIds :
                /\ (patients[p].end_q # -1 /\ patients[p].left = -1) =>
                      patients[p].end_q + patients[p].service >= now
                /\ patients[p].left # -1 =>
                      /\ p \in GrantedPatients
                      /\ patients[p].left =
                            patients[p].end_q + patients[p].service)
    /\ [][\A p \in PatientIds :
            /\ patients[p].left # -1 => patients'[p].left = patients[p].left
            /\ (p \in users /\ p \notin users') =>
                  /\ patients[p].left = -1
                  /\ patients'[p].left = now'
                  /\ now' = patients[p].end_q + patients[p].service]_vars

\* one patient has given its nurse back after a consultation of positive
\* length, another is in consultation, a third has just been granted the
\* freed nurse and a fourth waits
C26_Witness ==
    /\ Running
    /\ queue # <<>>
    /\ \E p \in PatientIds : patients[p].left # -1 /\ patients[p].service > 0
    /\ \E p \in users : patients[p].end_q # -1 /\ patients[p].end_q < now
    /\ \E p \in users : patients[p].end_q = -1 /\ patients[p].start_q < now

Next ==
    \/ run
    \/ generator_patient_arrivals
    \/ attend_clinic_request
    \/ attend_clinic_consult
    \/ attend_clinic_release
    \/ release_trigger_put
    \/ interval_audit_utilisation
    \/ stop

Spec == Init /\ [][Next]_vars

\* env.run steps the event queue for as long as an event is left: a step that
\* is possible is taken
SpecFair == Init /\ [][Next]_vars /\ WF_vars(Next)

NextTasks ==
    \/ task_request
    \/ task_hold
    \/ task_release
    \/ release_trigger_put
    \/ stop
    \/ flush_tail

\* the run of test_monitoredresource_cleanup
SpecTasks == InitTasks /\ [][NextTasks]_vars
NextSeed ==
    \/ Next
    \/ second_execution

\* a run of a Model followed by a second run with the same run number
SpecSeed == InitSeed /\ [][NextSeed]_vars
NextInvalid ==
    \/ Model_init
    \/ Next

\* a Model constructed from an invalid configuration, and its run
SpecInvalid == InitInvalid /\ [][NextInvalid]_vars

NextDefaults == set_attribute

\* assignments to the attributes of a Defaults object
SpecDefaults == InitDefaults /\ [][NextDefaults]_vars
NextTrial ==
    \/ run_trial
    \/ run_single_start
    \/ run_single_end
    \/ run_trial_end

\* Trial.run_trial, sequential or parallel
SpecTrial == InitTrial /\ [][NextTrial]_vars
====
